---- MODULE Spec2Model ----
(***************************************************************************)
(* The registration write-path of express-mongodb-auth.                    *)
(*                                                                         *)
(*   index.js        POST /register: validate, findOne, new User, save,     *)
(*                   respond                                               *)
(*   models/users.js (printed in README.md, lines 85-106) the schema with   *)
(*                   its unique email index and the pre("save") hook that    *)
(*                   salts and hashes the password                          *)
(*                                                                         *)
(* A request handler is an async function: it runs atomically between two   *)
(* awaits, and any number of handlers may be suspended at an await at the   *)
(* same time.  Each await is one pc value of the request; each action is    *)
(* the code that runs when the awaited promise settles.  The MongoDB        *)
(* collection is the sequence `store` (insertion order).                    *)
(*                                                                         *)
(* Strings are TLA+ strings.  Request fields are strings or absent, as the  *)
(* HTTP interface of the spec types them.  A store operation that fails for *)
(* infrastructural reasons rejects without having taken effect.             *)
(***************************************************************************)
EXTENDS Naturals, Sequences, FiniteSets, TLC

VARIABLES
    store,   \* the users collection: a sequence of stored documents
    owner,   \* history: owner[i] is the request whose save inserted store[i]
    req      \* req[r]: the state of the r-th POST /register request

vars == <<store, owner, req>>

(***************************************************************************)
(* Bounds and input sets                                                   *)
(***************************************************************************)
MaxRequests == 2

Requests == 1 .. MaxRequests

Keys == {"name", "email", "password"}

\* The 22-character random part of a bcrypt salt, as bcrypt.genSalt draws it.
SaltEntropy == {"N9qo8uLOickgx2ZMRZoMye", "7fGh2kLmNpQrStUvWxYz0u"}

\* A JSON body: a function from the keys present to their string values.
MkBody(D, n, e, p) ==
    [k \in D |-> CASE k = "name" -> n [] k = "email" -> e [] k = "password" -> p]

ValidBodies ==
    { MkBody(Keys, "Jane Doe", "jane@example.com", "password123"),
      MkBody(Keys, "Janet", "jane@example.com", "hunter2"),
      MkBody(Keys, "Bob", "bob@example.com", "password123"),
      \* a password that is itself shaped like a bcrypt digest
      MkBody(Keys, "Eve", "eve@example.com",
             "$2a$10$N9qo8uLOickgx2ZMRZoMyeH(password123)") }

InvalidBodies ==
    { MkBody(Keys \ {"name"}, "", "jane@example.com", "password123"),
      MkBody(Keys \ {"email"}, "Jane Doe", "", "password123"),
      MkBody(Keys \ {"password"}, "Jane Doe", "jane@example.com", ""),
      MkBody(Keys, "", "jane@example.com", "password123"),
      MkBody(Keys, "Jane Doe", "", "password123"),
      MkBody(Keys, "Jane Doe", "bob@example.com", ""),
      MkBody({}, "", "", "") }

Bodies == ValidBodies \cup InvalidBodies

(***************************************************************************)
(* Values                                                                  *)
(***************************************************************************)
NoBody == MkBody({}, "", "", "")

NoUser == [id |-> 0, name |-> "", email |-> "", password |-> ""]

NoDoc == [name |-> "", email |-> "", password |-> ""]

\* status 0: no response has been sent
NoResponse == [status |-> 0, message |-> "", savedUser |-> NoUser]

Response(status, message, user) ==
    [status |-> status, message |-> message, savedUser |-> user]

IdleRequest ==
    [ pc |-> "idle", body |-> NoBody, doc |-> NoDoc, salt |-> "",
      resp |-> NoResponse, sent |-> 0, reads |-> 0, writes |-> 0,
      saved |-> NoUser, foundNone |-> FALSE, faulted |-> FALSE,
      alone |-> FALSE, startLen |-> 0, dupAtStart |-> FALSE ]

(***************************************************************************)
(* index.js: input validation                                              *)
(***************************************************************************)
\* const { name, email, password } = req.body: an absent key is undefined.
\* !x is true of undefined and of the empty string.
Field(b, k) == IF k \in DOMAIN b THEN b[k] ELSE ""

Truthy(b, k) == k \in DOMAIN b /\ b[k] # ""

\* A validation that forgets the password.
ValidWithoutPassword(b) == Truthy(b, "name") /\ Truthy(b, "email")

Valid(b) == Truthy(b, "name") /\ Truthy(b, "email") /\ Truthy(b, "password")

(***************************************************************************)
(* models/users.js: bcrypt                                                 *)
(***************************************************************************)
Rounds == 10

\* bcrypt.genSalt(rounds): "$2a$" rounds "$" and 22 random characters.
GenSalt(rounds, entropy) ==
    "$2a$" \o (IF rounds = 10 THEN "10" ELSE "04") \o "$" \o entropy

\* bcrypt.hash(s, salt): the salt followed by the one-way image of (s, salt).
\* The image is the symbolic term H(s): a free constructor, equal only to
\* itself, which stands for the 31 characters bcrypt computes.
BcryptHash(s, salt) == salt \o "H(" \o s \o ")"

\* A hook that leaves this.password as it was.
NotEncrypted(plainTextPassword, salt) == plainTextPassword

\* pre("save"): const encryptedPassword = await bcrypt.hash(plainTextPassword, salt)
Encrypted(plainTextPassword, salt) == BcryptHash(plainTextPassword, salt)

\* bcrypt.compare(s, hash): hash s with the salt that `hash` starts with.
SaltOf(hash) == SubSeq(hash, 1, Len(GenSalt(Rounds, "......................")))

BcryptCompare(s, hash) ==
    /\ Len(hash) >= Len(SaltOf(hash))
    /\ BcryptHash(s, SaltOf(hash)) = hash

(***************************************************************************)
(* The store                                                               *)
(***************************************************************************)
Emails(st) == { st[i].email : i \in DOMAIN st }

\* A query that matches nothing.
FindNothing(st, email) == NoUser

\* User.findOne({ email }): the first document with that email, or null.
FindOne(st, email) ==
    IF email \in Emails(st)
    THEN st[CHOOSE i \in DOMAIN st :
                /\ st[i].email = email
                /\ \A j \in DOMAIN st : st[j].email = email => i <= j]
    ELSE NoUser

\* A schema without unique: true.
NoUniqueIndex(st, doc) == TRUE

\* email: { type: String, unique: true }: the index refuses a second
\* document with an email that is already there (E11000 duplicate key).
UniqueIndexAdmits(st, doc) == doc.email \notin Emails(st)

\* The inserted document: the store assigns its identity.
Stored(st, doc) ==
    [id |-> Len(st) + 1, name |-> doc.name, email |-> doc.email,
     password |-> doc.password]

\* An insert that puts the new document in front of the old ones.
InsertAtFront(st, doc) == <<[id |-> Len(st) + 1, name |-> doc.name,
                             email |-> doc.email, password |-> doc.password]>> \o st

InsertOne(st, doc) == Append(st, Stored(st, doc))

Init ==
    /\ store = << >>
    /\ owner = << >>
    /\ req = [r \in Requests |-> IdleRequest]

(***************************************************************************)
(* index.js: the responses of POST /register                               *)
(***************************************************************************)
AllFieldsRequired == Response(400, "All fields are required.", NoUser)

AlreadyRegistered == Response(400, "Email is already registered.", NoUser)

\* A success answer that leaves the status at its default.
RegisteredDefaultStatus(savedUser) ==
    Response(200, "User registered successfully!", savedUser)

Registered(savedUser) == Response(201, "User registered successfully!", savedUser)

ServerError == Response(500, "Server error", NoUser)

\* What the caller sees when the handler's promise rejects outside try/catch:
\* nothing at all (Express 4 leaves the rejection unhandled and the request
\* open), or the framework's own error page (Express 5 forwards it to the
\* default error handler).  Never the handler's JSON body.
UnhandledRejection ==
    { NoResponse, Response(500, "Internal Server Error", NoUser) }

\* res.status(..).json(..): one more response on the request.
Send(q, response) ==
    [q EXCEPT !.resp = response, !.sent = q.sent + 1, !.pc = "done"]

InFlight(q) == q.pc \notin {"idle", "done", "rejected"}

(***************************************************************************)
(* index.js: POST /register, one action per resumption of the handler      *)
(***************************************************************************)
\* Lines 31-39: destructure, validate, call findOne.
Receive(r, b) ==
    /\ req[r].pc = "idle"
    /\ \A o \in 1 .. (r - 1) : req[o].pc # "idle"
    /\ LET arrived ==
               [IdleRequest EXCEPT
                    !.body = b,
                    !.startLen = Len(store),
                    !.dupAtStart = Field(b, "email") \in Emails(store),
                    !.alone = \A o \in Requests \ {r} : ~InFlight(req[o])]
           mine ==
               IF ~Valid(b)
               THEN Send(arrived, AllFieldsRequired)
               ELSE [arrived EXCEPT !.pc = "findOne", !.reads = 1]
       IN  req' = [o \in Requests |->
                      IF o = r THEN mine
                      ELSE IF InFlight(req[o])
                           THEN [req[o] EXCEPT !.alone = FALSE]
                           ELSE req[o]]
    /\ UNCHANGED <<store, owner>>

\* Lines 39-49 and README 95-96: findOne resolves; a duplicate is answered,
\* otherwise new User(..).save() enters the pre-save hook, which awaits genSalt.
FindOneResolve(r) ==
    /\ req[r].pc = "findOne"
    /\ LET q == req[r]
           existingUser == FindOne(store, Field(q.body, "email"))
       IN  req' = [req EXCEPT ![r] =
                      IF existingUser # NoUser
                      THEN Send(q, AlreadyRegistered)
                      ELSE [q EXCEPT
                               !.foundNone = TRUE,
                               !.doc = [name |-> Field(q.body, "name"),
                                        email |-> Field(q.body, "email"),
                                        password |-> Field(q.body, "password")],
                               !.pc = "genSalt"]]
    /\ UNCHANGED <<store, owner>>

\* Line 39: findOne rejects (store unreachable).  The await is outside the
\* try block, so the handler's promise rejects and no line of it runs again.
FindOneReject(r) ==
    /\ req[r].pc = "findOne"
    /\ \E outcome \in UnhandledRejection :
          req' = [req EXCEPT ![r] =
                     IF outcome = NoResponse
                     THEN [@ EXCEPT !.pc = "rejected", !.faulted = TRUE]
                     ELSE [Send(@, outcome) EXCEPT !.pc = "rejected",
                                                   !.faulted = TRUE]]
    /\ UNCHANGED <<store, owner>>

\* README 96-98: genSalt resolves; the hook awaits bcrypt.hash.
PreSaveGenSalt(r) ==
    /\ req[r].pc = "genSalt"
    /\ \E entropy \in SaltEntropy :
          req' = [req EXCEPT ![r] =
                     [@ EXCEPT !.salt = GenSalt(Rounds, entropy), !.pc = "hash"]]
    /\ UNCHANGED <<store, owner>>

\* README 97-100: the hash resolves, this.password is replaced, next() lets
\* save send the insert to the store.
PreSaveHash(r) ==
    /\ req[r].pc = "hash"
    /\ LET q == req[r]
       IN  req' = [req EXCEPT ![r] =
                      [q EXCEPT !.doc.password = Encrypted(q.doc.password, q.salt),
                                !.writes = q.writes + 1,
                                !.pc = "insert"]]
    /\ UNCHANGED <<store, owner>>

\* The store executes the insert: atomically checks the unique index and
\* appends the document, or refuses it.
StoreInsert(r) ==
    /\ req[r].pc = "insert"
    /\ IF UniqueIndexAdmits(store, req[r].doc)
       THEN /\ store' = InsertOne(store, req[r].doc)
            /\ owner' = Append(owner, r)
            /\ req' = [req EXCEPT ![r] =
                          [req[r] EXCEPT !.saved = Stored(store, req[r].doc),
                                         !.pc = "saved"]]
       ELSE /\ req' = [req EXCEPT ![r] = [@ EXCEPT !.pc = "saveFailed"]]
            /\ UNCHANGED <<store, owner>>

\* The insert fails for an infrastructural reason.
StoreInsertFault(r) ==
    /\ req[r].pc = "insert"
    /\ req' = [req EXCEPT ![r] =
                  [@ EXCEPT !.pc = "saveFailed", !.faulted = TRUE]]
    /\ UNCHANGED <<store, owner>>

\* Lines 53-58: save resolved.
SaveResolve(r) ==
    /\ req[r].pc = "saved"
    /\ req' = [req EXCEPT ![r] = Send(@, Registered(@.saved))]
    /\ UNCHANGED <<store, owner>>

\* A catch block that reports every save error as a duplicate.
CatchAsDuplicate(q) ==
    [q EXCEPT !.resp = Response(400, "Email is already registered.", NoUser),
              !.sent = q.sent + 1, !.pc = "done"]

\* A catch block that tries the save again.
CatchAndRetry(q) == [q EXCEPT !.writes = q.writes + 1, !.pc = "insert"]

\* Lines 59-62: save rejected; the catch block answers.
CatchSaveError(q) == Send(q, ServerError)

SaveReject(r) ==
    /\ req[r].pc = "saveFailed"
    /\ req' = [req EXCEPT ![r] = CatchSaveError(@)]
    /\ UNCHANGED <<store, owner>>

Next ==
    \E r \in Requests :
        \/ \E b \in Bodies : Receive(r, b)
        \/ FindOneResolve(r)
        \/ FindOneReject(r)
        \/ PreSaveGenSalt(r)
        \/ PreSaveHash(r)
        \/ StoreInsert(r)
        \/ StoreInsertFault(r)
        \/ SaveResolve(r)
        \/ SaveReject(r)

Spec == Init /\ [][Next]_vars

(***************************************************************************)
(* Vocabulary of the properties                                            *)
(***************************************************************************)
Finished(q) == q.pc \in {"done", "rejected"}

RecordsOf(r) == { i \in DOMAIN owner : owner[i] = r }

RecordsWith(email) == { i \in DOMAIN store : store[i].email = email }

EmailOf(r) == Field(req[r].body, "email")

PlainOf(r) == Field(req[r].body, "password")

\* The requests that saw no user with this email and met no store failure.
Racers(email) ==
    { r \in Requests : req[r].foundNone /\ ~req[r].faulted /\ EmailOf(r) = email }

AllEmails == { Field(b, "email") : b \in Bodies }

(***************************************************************************)
(* C1: in every reachable state, whatever the interleaving of the requests  *)
(* (two requests with one email may both pass findOne before either        *)
(* saves), no two stored records have the same email.                      *)
(***************************************************************************)
C1_UniqueEmails ==
    \A i, j \in DOMAIN store : store[i].email = store[j].email => i = j

\* Two requests with the same email both saw no existing user, and both ended.
C1_Witness ==
    \E r1, r2 \in Requests :
        /\ r1 # r2
        /\ req[r1].foundNone /\ req[r2].foundNone
        /\ EmailOf(r1) = EmailOf(r2)
        /\ req[r1].pc = "done" /\ req[r2].pc = "done"
        /\ RecordsWith(EmailOf(r1)) # {}

(***************************************************************************)
(* C2: every stored record's password is a digest the hasher produced from  *)
(* the password of the request that created the record, and is never that   *)
(* plain text; a document is sent to the store only after the pre-save hook *)
(* has hashed it.                                                          *)
(***************************************************************************)
C2_StoredPasswordIsDigest ==
    /\ \A i \in DOMAIN store :
          /\ store[i].password # PlainOf(owner[i])
          /\ \E e \in SaltEntropy :
                store[i].password =
                    ("$2a$10$" \o e \o "H(" \o PlainOf(owner[i]) \o ")")
          /\ BcryptCompare(PlainOf(owner[i]), store[i].password)
    /\ \A r \in Requests :
          req[r].pc \in {"insert", "saved", "saveFailed"}
              => req[r].doc.password # PlainOf(r)

\* A record is stored whose plain-text password was itself digest-shaped.
C2_Witness ==
    \E i \in DOMAIN store :
        /\ SubSeq(PlainOf(owner[i]), 1, 7) = "$2a$10$"
        /\ store[i].password # PlainOf(owner[i])

(***************************************************************************)
(* C3: a request with three non-empty fields and an email not in the store, *)
(* run with no concurrent request and no store failure, is answered 201;    *)
(* the store gained exactly one record, with the request's name and email   *)
(* and a digest different from its password, and savedUser is that record.  *)
(***************************************************************************)
C3_SoloRegisterSucceeds ==
    \A r \in Requests :
        ( /\ Finished(req[r])
          /\ Truthy(req[r].body, "name")
          /\ Truthy(req[r].body, "email")
          /\ Truthy(req[r].body, "password")
          /\ ~req[r].dupAtStart
          /\ req[r].alone
          /\ ~req[r].faulted )
        => /\ req[r].resp.status = 201
           /\ req[r].sent = 1
           /\ RecordsOf(r) = {req[r].startLen + 1}
           /\ LET rec == store[req[r].startLen + 1]
              IN  /\ rec.name = req[r].body["name"]
                  /\ rec.email = req[r].body["email"]
                  /\ rec.password # req[r].body["password"]
                  /\ \E e \in SaltEntropy :
                        rec.password = ("$2a$10$" \o e \o "H("
                                        \o req[r].body["password"] \o ")")
                  /\ rec.id # 0
                  /\ req[r].resp.savedUser = rec

\* A request ran alone into a store that already held another record.
C3_Witness ==
    \E r \in Requests :
        /\ req[r].pc = "done" /\ req[r].alone /\ ~req[r].faulted
        /\ req[r].startLen >= 1
        /\ req[r].resp.status = 201

C5_ValidationRejects ==
    \A r \in Requests :
        ( /\ req[r].pc # "idle"
          /\ \E k \in Keys : k \notin DOMAIN req[r].body \/ req[r].body[k] = "" )
        => /\ req[r].pc = "done"
           /\ req[r].resp.status = 400
           /\ req[r].resp.message = "All fields are required."
           /\ req[r].sent = 1
           /\ req[r].reads = 0
           /\ req[r].writes = 0
           /\ RecordsOf(r) = {}

\* The password alone was missing, and the store was not empty.
C5_Witness ==
    \E r \in Requests :
        /\ req[r].pc = "done"
        /\ "password" \notin DOMAIN req[r].body
        /\ DOMAIN req[r].body = {"name", "email"}
        /\ req[r].startLen >= 1
        /\ req[r].resp.status = 400

(***************************************************************************)
(* C6: a request whose findOne or save fails for an infrastructural reason  *)
(* is answered 500 { message: "Server error" } and adds no record.          *)
(***************************************************************************)
C6_StoreFailureAnswered500 ==
    \A r \in Requests :
        (req[r].faulted /\ ~InFlight(req[r]))
        => /\ req[r].resp.status = 500
           /\ req[r].resp.message = "Server error"
           /\ RecordsOf(r) = {}

(***************************************************************************)
(* C7 as stated: every register request performs exactly one read; when no  *)
(* duplicate is found exactly one write attempt, none when one is found;    *)
(* nothing is retried.                                                     *)
(***************************************************************************)
C7_EveryRequestReadsOnce ==
    \A r \in Requests :
        /\ req[r].reads <= 1
        /\ req[r].writes <= 1
        /\ Finished(req[r]) =>
              /\ req[r].reads = 1
              /\ req[r].foundNone => req[r].writes = 1
              /\ ~req[r].foundNone => req[r].writes = 0

(***************************************************************************)
(* C7 amended: every register request that passes validation performs       *)
(* exactly one read, and one that fails validation none; when the read      *)
(* finds no duplicate exactly one write is attempted, otherwise none; no     *)
(* read or write is retried after a failure.                               *)
(***************************************************************************)
C7_ValidRequestReadsOnce ==
    \A r \in Requests :
        /\ req[r].reads <= 1
        /\ req[r].writes <= 1
        /\ Finished(req[r]) =>
              /\ req[r].reads =
                    IF \A k \in Keys : k \in DOMAIN req[r].body /\ req[r].body[k] # ""
                    THEN 1 ELSE 0
              /\ req[r].foundNone => req[r].writes = 1
              /\ ~req[r].foundNone => req[r].writes = 0

\* A save failed and was answered without a second attempt, and a read failed
\* and was not repeated.
C7_Witness ==
    \E r1, r2 \in Requests :
        /\ req[r1].pc = "done" /\ req[r1].faulted
        /\ req[r1].writes = 1 /\ req[r1].resp.status = 500
        /\ req[r2].pc = "rejected" /\ req[r2].reads = 1 /\ req[r2].writes = 0

(***************************************************************************)
(* C9: when requests with the same unused email all pass findOne before any *)
(* of them saves, and no store failure occurs, exactly one is answered 201, *)
(* every other one 500 "Server error" (not 400), and exactly one record     *)
(* with that email is stored.                                              *)
(***************************************************************************)
C9_RaceOneWinner ==
    \A e \in AllEmails :
        ( /\ Cardinality(Racers(e)) >= 2
          /\ \A r \in Racers(e) : req[r].pc = "done" )
        => /\ Cardinality({ r \in Racers(e) : req[r].resp.status = 201 }) = 1
           /\ \A r \in Racers(e) :
                 \/ req[r].resp.status = 201
                 \/ /\ req[r].resp.status = 500
                    /\ req[r].resp.message = "Server error"
           /\ Cardinality(RecordsWith(e)) = 1

\* Two racing requests have both been answered.
C9_Witness ==
    \E e \in AllEmails :
        /\ Cardinality(Racers(e)) = 2
        /\ \A r \in Racers(e) : req[r].pc = "done"
        /\ \E r \in Racers(e) : req[r].resp.status = 500

(***************************************************************************)
(* C10: a request is answered at most once; it is answered 201 exactly when *)
(* its own save added a record; a request answered 400 or 500 added none;   *)
(* the number of stored records is the number of requests answered 201 or   *)
(* awaiting their answer after a successful save; stored records are never  *)
(* modified or removed.                                                    *)
(***************************************************************************)
C10_FrameOfRegister ==
    /\ \A r \in Requests :
          /\ req[r].sent <= 1
          /\ req[r].sent = 1 <=> req[r].resp.status # 0
          /\ req[r].resp.status = 201 => Cardinality(RecordsOf(r)) = 1
          /\ RecordsOf(r) # {} =>
                (req[r].resp.status = 201 \/ req[r].pc = "saved")
          /\ req[r].resp.status \in {400, 500} => RecordsOf(r) = {}
    /\ Len(store) =
          Cardinality({ r \in Requests :
                          req[r].resp.status = 201 \/ req[r].pc = "saved" })
    /\ Len(owner) = Len(store)
    /\ \A i \in DOMAIN store :
          /\ store[i] = req[owner[i]].saved
          /\ store[i].id = i
          /\ store[i].email = EmailOf(owner[i])
          /\ store[i].name = Field(req[owner[i]].body, "name")

\* Requests have ended in 201, 400 and 500 around a store that holds a record.
C10_Witness ==
    /\ Len(store) >= 1
    /\ \E r \in Requests : req[r].resp.status = 201
    /\ \E r \in Requests : req[r].resp.status = 500 /\ req[r].pc = "done"

====
